---- MODULE Spec2Model ----
(***************************************************************************)
(* faunadb/objects.py: Ref, Set.iterator (the paginator), Event and Page.  *)
(*                                                                         *)
(* Python values are modelled as follows.  Strings that the code takes     *)
(* apart (Ref values) are sequences of one-character strings.  Values the  *)
(* code only passes around (page elements, cursors, page sizes, event      *)
(* resources) are opaque tokens.  Python's None is the token NoCursor for  *)
(* a cursor and the string "None" for a page size, an action, a resource.  *)
(* A dict is a function whose DOMAIN is the set of keys present.           *)
(***************************************************************************)
EXTENDS Integers, Sequences, FiniteSets, TLC

VARIABLES
  trav,      \* per iterator() call: the generator frame and what its consumer and the executor saw
  calls,     \* client.query calls answered so far (all traversals)
  ref,       \* one Ref: the constructor's arguments, the object, what id() and to_class() returned
  ev         \* one Event: the constructor's arguments, the object, its dict, what from_json made of it

pagVars == <<trav, calls>>
vars == <<trav, calls, ref, ev>>

\* ------------------------------------------------------------------ bounds
MaxFetches == 3
MaxData == 2
MaxCallsConc == 3
MaxDataConc == 1
MaxClassLen == 2
MaxIdLen == 3
MaxTs == 2

Traversals == {1, 2}
PageSizes == {"None", "s64"}

\* ------------------------------------------------------------------ values
NoCursor == <<>>
NoPage == [none |-> TRUE]
NoResource == [absent |-> TRUE]

\* The j-th element of the i-th response to traversal t; all distinct, so
\* that a skipped, repeated or reordered element shows in the output.
ElemTok(t, i, j) == <<"elem", t, i, j>>
\* The cursor the i-th response to traversal t carries under key d.
CursorTok(t, i, d) == <<d, t, i>>

RECURSIVE Concat(_)
Concat(ss) == IF ss = <<>> THEN <<>> ELSE Head(ss) \o Concat(Tail(ss))

\* ------------------------------------------------------------------ Page
Page(data, before, after) == [data |-> data, before |-> before, after |-> after]

\* dict.get(key): the value, or None when the key is missing
DictGet(json, key) == IF key \in DOMAIN json THEN json[key] ELSE NoCursor

\* a from_json that reads "data" with a default, as it reads the cursors
Page_from_json_DefaultData(json) ==
  [err |-> "none",
   page |-> Page(IF "data" \in DOMAIN json THEN json["data"] ELSE <<>>,
                 DictGet(json, "before"), DictGet(json, "after"))]

\* Page.from_json: json["data"] raises KeyError when the key is missing
Page_from_json(json) ==
  IF "data" \in DOMAIN json
    THEN [err |-> "none", page |-> Page(json["data"], DictGet(json, "before"), DictGet(json, "after"))]
    ELSE [err |-> "KeyError", page |-> NoPage]

\* getattr(page, name)
GetAttr(p, name) == IF name = "after" THEN p.after ELSE p.before

\* ------------------------------------------------------------------ executor
\* What client.query(...).resource can be for the i-th fetch of traversal t:
\* any mapping over the keys data/before/after.  The last call the bound
\* allows (final) answers without cursors.
Resource(t, i, k, keys) ==
  [key \in keys |-> IF key = "data" THEN [j \in 1..k |-> ElemTok(t, i, j)]
                                    ELSE CursorTok(t, i, key)]

Resources(t, i, maxData, final) ==
  { Resource(t, i, k, keys) :
      k \in 0..maxData,
      keys \in { ks \in SUBSET {"data", "before", "after"} : final => ks \subseteq {"data"} } }

Outcomes(t, i, maxData, final) ==
  {[kind |-> "error", resource |-> NoResource]}
    \cup { [kind |-> "resource", resource |-> r] : r \in Resources(t, i, maxData, final) }

\* ------------------------------------------------------------------ Set.iterator
\* get_page(size=page_size)
FirstKwargs(page_size) == [size |-> page_size]

\* get_page(**{"size": page_size, next_cursor: getattr(page, next_cursor)})
NextKwargs(page_size, next_cursor, p) ==
  (next_cursor :> GetAttr(p, next_cursor)) @@ [size |-> page_size]

\* next_cursor = "after" if page.after is not None else "before"
ChooseDirection(p) == IF p.after # NoCursor THEN "after" ELSE "before"

\* a direction chosen again from every page
DirectionAfter_Rechoose(next_cursor, p) == ChooseDirection(p)

\* next_cursor is assigned once, after the first page's for loop
DirectionAfter(next_cursor, p) ==
  IF next_cursor = "unset" THEN ChooseDirection(p) ELSE next_cursor

\* a loop that also stops on a page without elements
WhileCondition_StopOnEmpty(p, next_cursor) ==
  GetAttr(p, next_cursor) # NoCursor /\ p.data # <<>>

\* while getattr(page, next_cursor) is not None
WhileCondition(p, next_cursor) == GetAttr(p, next_cursor) # NoCursor

\* a loop that leaves out the page's last element
ForHasNext_DropLast(p, idx) == idx < Len(p.data)

\* for val in page.data: is there an idx-th element
ForHasNext(p, idx) == idx <= Len(p.data)

\* the page kept in one place for all traversals
CurrentPage_Shared(t) ==
  IF trav[1].page # NoPage THEN trav[1].page ELSE trav[t].page

\* the generator's local variable page
CurrentPage(t) == trav[t].page

Absent ==
  [pc |-> "None", page_size |-> "None", page |-> NoPage, idx |-> 0,
   next_cursor |-> "unset",
   out |-> <<>>, last |-> "none", raised |-> "none", reqs |-> <<>>,
   hist |-> <<>>, res |-> NoResource, nreq |-> 0, done_pages |-> 0,
   abandoned |-> FALSE]

\* an iterator() that fetches the first page before it returns
NewGenerator_Eager(page_size) ==
  [Absent EXCEPT !.pc = "Fetching", !.page_size = page_size,
                 !.reqs = <<FirstKwargs(page_size)>>]

\* Calling a generator function runs none of its body.
NewGenerator(page_size) ==
  [Absent EXCEPT !.pc = "Start", !.page_size = page_size]

\* a failure swallowed: the sequence just ends
Propagate_Swallow(f, err) ==
  [f EXCEPT !.pc = "Done", !.last = "StopIteration"]

\* An exception raised inside the generator leaves through the consumer's
\* next() and finishes the generator.
Propagate(f, err) ==
  [f EXCEPT !.pc = "Failed", !.last = "error", !.raised = err]

InitPag ==
  /\ trav = [t \in Traversals |-> Absent]
  /\ calls = 0

\* it = some_set.iterator(client, page_size)
Iterator(t, cap) ==
  /\ calls < cap
  /\ \/ trav[t].pc \in {"None", "Yielded", "Done", "Failed"}
     \/ trav[t].abandoned
  /\ \E ps \in PageSizes : trav' = [trav EXCEPT ![t] = NewGenerator(ps)]
  /\ UNCHANGED <<calls, ref, ev>>

\* next(it) by the consumer
Request(t) ==
  LET f == trav[t] IN
  /\ ~f.abandoned
  /\ f.pc \in {"Start", "Yielded", "Done", "Failed"}
  /\ trav' = [trav EXCEPT ![t] =
       CASE f.pc = "Start" ->
              [f EXCEPT !.pc = "Fetching", !.reqs = <<FirstKwargs(f.page_size)>>,
                        !.nreq = 1]
         [] f.pc = "Yielded" ->
              [f EXCEPT !.pc = "Emitting", !.idx = f.idx + 1, !.nreq = f.nreq + 1]
         [] OTHER -> [f EXCEPT !.last = "StopIteration"]]
  /\ UNCHANGED <<calls, ref, ev>>

\* client.query answers the fetch in flight; Page.from_json reads the answer
Fetch(t, cap, maxData) ==
  LET f == trav[t] IN
  /\ f.pc = "Fetching"
  /\ calls < cap
  /\ \E o \in Outcomes(t, Len(f.reqs), maxData, calls + 1 = cap) :
       LET g == [f EXCEPT !.res = o.resource]
           r == Page_from_json(o.resource) IN
       trav' = [trav EXCEPT ![t] =
         IF o.kind = "error" THEN Propagate(g, "QueryError")
         ELSE IF r.err # "none" THEN Propagate(g, r.err)
         ELSE [g EXCEPT !.pc = "Emitting", !.page = r.page, !.idx = 1,
                        !.hist = Append(f.hist, r.page)]]
  /\ calls' = calls + 1
  /\ UNCHANGED <<ref, ev>>

\* the generator runs on to its next yield, its next fetch or its end
Emit(t) ==
  LET f == trav[t]
      p == CurrentPage(t)
      nc == DirectionAfter(f.next_cursor, p) IN
  /\ f.pc = "Emitting"
  /\ trav' = [trav EXCEPT ![t] =
       IF ForHasNext(p, f.idx)
         THEN [f EXCEPT !.pc = "Yielded", !.out = Append(f.out, p.data[f.idx]),
                        !.last = "value"]
       ELSE IF WhileCondition(p, nc)
         THEN [f EXCEPT !.pc = "Fetching", !.next_cursor = nc,
                        !.done_pages = f.done_pages + 1,
                        !.reqs = Append(f.reqs, NextKwargs(f.page_size, nc, p))]
       ELSE [f EXCEPT !.pc = "Done", !.next_cursor = nc, !.last = "StopIteration",
                      !.done_pages = f.done_pages + 1]]
  /\ UNCHANGED <<calls, ref, ev>>

\* the consumer drops the iterator
Abandon(t) ==
  /\ trav[t].pc \in {"Start", "Yielded"}
  /\ ~trav[t].abandoned
  /\ trav' = [trav EXCEPT ![t].abandoned = TRUE]
  /\ UNCHANGED <<calls, ref, ev>>


\* ------------------------------------------------------------------ Ref
Alphabet == {"a", "b", "c", "/"}
Strs(n) == UNION { [1..k -> Alphabet] : k \in 0..n }

\* str.split("/"): never empty; "" splits into [""]
RECURSIVE Split(_)
Split(s) ==
  IF s = <<>> THEN << <<>> >>
  ELSE LET rest == Split(Tail(s)) IN
       IF Head(s) = "/" THEN << <<>> >> \o rest
       ELSE << <<Head(s)>> \o Head(rest) >> \o Tail(rest)

\* "/".join(segs)
RECURSIVE Join(_)
Join(segs) ==
  IF segs = <<>> THEN <<>>
  ELSE IF Len(segs) = 1 THEN segs[1]
  ELSE segs[1] \o <<"/">> \o Join(Tail(segs))

\* Ref.__init__: class_name is a string or a Ref (str() of a Ref is its value),
\* instance_id is None or a string
Ref_init(class_name, instance_id) ==
  IF instance_id.none THEN class_name.s
  ELSE class_name.s \o <<"/">> \o instance_id.s

\* an id() that takes the first segment
Ref_id_First(value) == Split(value)[1]

\* Ref.id: self.value.split("/")[-1]
Ref_id(value) == LET segs == Split(value) IN segs[Len(segs)]

\* Ref.to_class: Ref("/".join(self.value.split("/")[0:-1]))
Ref_to_class(value) ==
  LET segs == Split(value) IN Ref_init([kind |-> "str", s |-> Join(SubSeq(segs, 1, Len(segs) - 1))],
                                       [none |-> TRUE, s |-> <<>>])

ClassArgs == [kind : {"str", "ref"}, s : Strs(MaxClassLen)]
IdArgs == {[none |-> TRUE, s |-> <<>>]} \cup [none : {FALSE}, s : Strs(MaxIdLen)]

RefIdle ==
  [class_name |-> [kind |-> "str", s |-> <<>>], instance_id |-> [none |-> TRUE, s |-> <<>>],
   built |-> FALSE, value |-> <<>>, has_id |-> FALSE, id |-> <<>>,
   has_class |-> FALSE, to_class |-> <<>>]

InitRef ==
  \E c \in ClassArgs, i \in IdArgs :
    ref = [RefIdle EXCEPT !.class_name = c, !.instance_id = i]

\* r = Ref(class_name, instance_id)
RefConstruct ==
  /\ ~ref.built
  /\ ref' = [ref EXCEPT !.built = TRUE, !.value = Ref_init(ref.class_name, ref.instance_id)]
  /\ UNCHANGED <<trav, calls, ev>>

\* r.id()
RefId ==
  /\ ref.built /\ ~ref.has_id
  /\ ref' = [ref EXCEPT !.has_id = TRUE, !.id = Ref_id(ref.value)]
  /\ UNCHANGED <<trav, calls, ev>>

\* r.to_class()
RefToClass ==
  /\ ref.built /\ ~ref.has_class
  /\ ref' = [ref EXCEPT !.has_class = TRUE, !.to_class = Ref_to_class(ref.value)]
  /\ UNCHANGED <<trav, calls, ev>>

\* ------------------------------------------------------------------ Event
EvActions == {"None", "create", "delete", "update"}
EvResources == {"None", "Ref(classes/x/1)", "Ref(classes/x/2)"}
NoEvent == [none |-> TRUE]
NoJson == [absent |-> TRUE]

\* a check that forgets None
ValidAction_NoNone(action) == action \in {"create", "delete"}

\* action not in (None, "create", "delete")
ValidAction(action) == action \in {"None", "create", "delete"}

\* Event.__init__
Event_init(ts, action, resource) ==
  IF ~ValidAction(action) THEN [err |-> "InvalidQuery", obj |-> NoEvent]
  ELSE [err |-> "none", obj |-> [ts |-> ts, action |-> action, resource |-> resource]]

\* Event.to_fauna_json: the keys whose value is not None (ts is an integer here)
Event_to_fauna_json(e) ==
  LET dct == [ts |-> e.ts, action |-> e.action, resource |-> e.resource]
      kept == {"ts"} \cup {k \in {"action", "resource"} : dct[k] # "None"}
  IN [k \in kept |-> dct[k]]

\* Event.from_json: json["ts"], json["action"], json["resource"], then Event(...)
Event_from_json(json) ==
  IF {"ts", "action", "resource"} \subseteq DOMAIN json
    THEN Event_init(json["ts"], json["action"], json["resource"])
    ELSE [err |-> "KeyError", obj |-> NoEvent]

\* the dicts handed to Event.from_json directly
JsonInputs ==
  { [k \in keys |-> IF k = "ts" THEN ts ELSE IF k = "action" THEN a ELSE r] :
      keys \in SUBSET {"ts", "action", "resource"},
      ts \in 0..MaxTs, a \in EvActions, r \in EvResources }

EvIdle ==
  [mode |-> "idle", ts |-> 0, action |-> "None", resource |-> "None",
   made |-> FALSE, err |-> "none", obj |-> NoEvent,
   json |-> NoJson, read |-> FALSE, back |-> [err |-> "none", obj |-> NoEvent]]

InitEv ==
  \/ \E ts \in 0..MaxTs, a \in EvActions, r \in EvResources :
       ev = [EvIdle EXCEPT !.mode = "direct", !.ts = ts, !.action = a, !.resource = r]
  \/ \E j \in JsonInputs :
       ev = [EvIdle EXCEPT !.mode = "json", !.json = j]

\* e = Event(ts, action, resource)
EventConstruct ==
  /\ ev.mode = "direct" /\ ~ev.made
  /\ LET r == Event_init(ev.ts, ev.action, ev.resource) IN
       ev' = [ev EXCEPT !.made = TRUE, !.err = r.err, !.obj = r.obj]
  /\ UNCHANGED <<trav, calls, ref>>

\* e.to_fauna_json()
EventSerialize ==
  /\ ev.obj # NoEvent /\ ev.json = NoJson
  /\ ev' = [ev EXCEPT !.json = Event_to_fauna_json(ev.obj)]
  /\ UNCHANGED <<trav, calls, ref>>

\* Event.from_json(json)
EventDeserialize ==
  /\ ev.json # NoJson /\ ~ev.read
  /\ ev' = [ev EXCEPT !.read = TRUE, !.back = Event_from_json(ev.json)]
  /\ UNCHANGED <<trav, calls, ref>>

\* ------------------------------------------------------------------ specifications
\* one traversal at a time
Next ==
  \E t \in {1} :
    \/ Iterator(t, MaxFetches)
    \/ Request(t)
    \/ Fetch(t, MaxFetches, MaxData)
    \/ Emit(t)
    \/ Abandon(t)

Init == InitPag /\ ref = RefIdle /\ ev = EvIdle

Spec == Init /\ [][Next]_vars

\* the consumer keeps asking, the executor answers, the generator runs on
Progress == Request(1) \/ Fetch(1, MaxFetches, MaxData) \/ Emit(1)

SpecLive == Init /\ [][Next]_vars /\ WF_vars(Progress)

\* traversals side by side on one executor
NextConc ==
  \E t \in Traversals :
    \/ Iterator(t, MaxCallsConc)
    \/ Request(t)
    \/ Fetch(t, MaxCallsConc, MaxDataConc)
    \/ Emit(t)

SpecConc == Init /\ [][NextConc]_vars

InitRefSpec == InitPag /\ InitRef /\ ev = EvIdle

NextRef == RefConstruct \/ RefId \/ RefToClass

SpecRef == InitRefSpec /\ [][NextRef]_vars

InitEvSpec == InitPag /\ ref = RefIdle /\ InitEv

NextEvent == EventConstruct \/ EventSerialize \/ EventDeserialize

SpecEvent == InitEvSpec /\ [][NextEvent]_vars

\* ------------------------------------------------------------------ properties
IsPrefix(a, b) == Len(a) <= Len(b) /\ a = SubSeq(b, 1, Len(a))

\* the elements of the pages h, in order
DataOf(h) == Concat([k \in 1..Len(h) |-> h[k].data])

\* the direction the first page of h decides
DirOf(h) == IF h[1].after # NoCursor THEN "after" ELSE "before"

\* h is a chain: every page but the last carries the chosen cursor
IsChain(h) ==
  /\ \A k \in 1..(Len(h) - 1) : h[k][DirOf(h)] # NoCursor
  /\ h[Len(h)][DirOf(h)] = NoCursor

\* the fetches a chain h asks for
ChainRequests(page_size, h) ==
  [k \in 1..Len(h) |->
     IF k = 1 THEN [size |-> page_size]
     ELSE (DirOf(h) :> h[k - 1][DirOf(h)]) @@ [size |-> page_size]]

\* C1: when the pages received form a chain (each page but the last carries the
\* chosen-direction cursor, the last carries none), the traversal has made exactly
\* one fetch per page, the first with size = page_size and no cursor, the k-th with
\* size = page_size and the chosen cursor of page k-1; what it has yielded is a
\* prefix of the pages' data in order, and all of it once the traversal is Done.
\* A traversal is Done only after such a chain.
C1_ChainTraversal ==
  \A t \in Traversals :
    LET f == trav[t]
        h == f.hist IN
    /\ (h # <<>> /\ IsChain(h)) =>
          /\ f.reqs = ChainRequests(f.page_size, h)
          /\ IsPrefix(f.out, DataOf(h))
    /\ f.pc = "Done" =>
          /\ h # <<>> /\ IsChain(h)
          /\ f.out = DataOf(h)
          /\ Len(f.reqs) = Len(h)

C1_Witness ==
  /\ trav[1].pc = "Done"
  /\ Len(trav[1].hist) = 3
  /\ Len(trav[1].out) >= 4
  /\ trav[1].hist[1].after # NoCursor

\* C2: the direction is the first page's choice ("after" if it has an after cursor,
\* also when it has a before cursor too, "before" otherwise) and stays so: every
\* fetch after the first passes size and the cursor of that direction only, taken
\* from the page before, and the traversal is Done only on a page without it.
C2_DirectionLock ==
  \A t \in Traversals :
    LET f == trav[t]
        h == f.hist IN
    IF h = <<>>
      THEN /\ f.next_cursor = "unset"
           /\ \A k \in 1..Len(f.reqs) : DOMAIN f.reqs[k] = {"size"}
      ELSE /\ f.next_cursor \in {"unset", DirOf(h)}
           /\ f.next_cursor = "unset" => Len(f.reqs) = 1
           /\ \A k \in 2..Len(f.reqs) :
                 /\ DOMAIN f.reqs[k] = {"size", DirOf(h)}
                 /\ f.reqs[k][DirOf(h)] = h[k - 1][DirOf(h)]
                 /\ h[k - 1][DirOf(h)] # NoCursor
           /\ f.pc = "Done" => h[Len(h)][DirOf(h)] = NoCursor

\* the first page has only before; the second has after too; the third fetch passes before
C2_Witness ==
  /\ Len(trav[1].reqs) = 3
  /\ trav[1].hist[1].after = NoCursor
  /\ trav[1].hist[1].before # NoCursor
  /\ trav[1].hist[2].after # NoCursor
  /\ DOMAIN trav[1].reqs[3] = {"size", "before"}

\* a fetch of f was answered with a failure: asked for, answered, and no page came
FetchFailed(f) == Len(f.reqs) > Len(f.hist) /\ f.pc # "Fetching"

C3_State(t) ==
  LET f == trav[t] IN
  /\ FetchFailed(f) <=> f.pc = "Failed"
  /\ f.pc = "Failed" =>
        /\ f.raised \in {"QueryError", "KeyError"}
        /\ f.raised = "QueryError" <=> f.res = NoResource
        /\ f.last \in {"error", "StopIteration"}
        /\ f.out = DataOf(f.hist)
        /\ Len(f.reqs) = Len(f.hist) + 1
  /\ f.pc # "Failed" => f.raised = "none" /\ f.last # "error"

C3_Step(t) ==
  LET f == trav[t]
      g == trav'[t] IN
  /\ (f.pc # "Failed" /\ g.pc = "Failed") =>
        f.pc = "Fetching" /\ g.last = "error" /\ g.out = f.out /\ g.reqs = f.reqs
  /\ f.pc = "Failed" =>
        \/ g.pc = "Start"
        \/ /\ g.pc = "Failed" /\ g.reqs = f.reqs /\ g.out = f.out /\ g.hist = f.hist
            /\ g.raised = f.raised /\ g.last \in {f.last, "StopIteration"}

\* C3: when the k-th fetch fails the consumer has received the elements of pages
\* 0..k-2 in order and nothing else, the failure (the executor's, or the KeyError of a
\* malformed answer) reaches it in place of the next element, and the traversal is
\* Failed for good: asking again gives StopIteration, the fetch is not repeated and
\* no other fetch follows (only a new iterator() call starts again).
C3_FailurePropagates ==
  /\ [](\A t \in Traversals : C3_State(t))
  /\ [][\A t \in Traversals : C3_Step(t)]_vars

\* the second fetch failed in the executor; the consumer asked once more
C3_Witness ==
  /\ trav[1].pc = "Failed"
  /\ trav[1].raised = "QueryError"
  /\ Len(trav[1].reqs) = 2
  /\ Len(trav[1].out) = 2
  /\ trav[1].last = "StopIteration"

C4_State(t) ==
  LET f == trav[t]
      h == f.hist IN
  /\ f.pc = "Done" =>
        /\ h # <<>> /\ f.page = h[Len(h)]
        /\ f.next_cursor = DirOf(h)
        /\ f.page[f.next_cursor] = NoCursor
        /\ f.out = DataOf(h)
  \* every element of the current page is out and the consumer asked for more
  /\ (h # <<>> /\ f.done_pages = Len(h)) =>
        IF h[Len(h)][DirOf(h)] = NoCursor
          THEN f.pc = "Done" /\ Len(f.reqs) = Len(h)
          ELSE f.pc \in {"Fetching", "Failed"} /\ Len(f.reqs) = Len(h) + 1
  /\ (h # <<>> /\ h[1].after = NoCursor /\ h[1].before = NoCursor) =>
        Len(f.reqs) = 1 /\ Len(h) = 1

C4_Step(t) ==
  trav[t].pc = "Done" => trav'[t].pc \in {"Done", "Start"} /\ trav'[t].reqs \in {trav[t].reqs, <<>>}

\* C4: the traversal is Done exactly when the current page, all of it yielded, has
\* no cursor of the chosen direction; while that cursor is there it goes on to fetch
\* (also after a page without elements); a first page with neither cursor ends it
\* after one fetch; Done is final; and with a consumer that keeps asking and an
\* executor that sooner or later answers without the cursor (or fails), every
\* traversal started ends, Done or Failed, unless the consumer drops it.
C4_Termination ==
  /\ [](\A t \in Traversals : C4_State(t))
  /\ [][\A t \in Traversals : C4_Step(t)]_vars
  /\ ((trav[1].pc = "Start" /\ ~trav[1].abandoned)
         ~> (trav[1].pc \in {"Done", "Failed"} \/ trav[1].abandoned))

\* Done after three pages, the second of them without elements
C4_Witness ==
  /\ trav[1].pc = "Done"
  /\ Len(trav[1].hist) = 3
  /\ trav[1].hist[2].data = <<>>
  /\ trav[1].hist[3].data # <<>>
  /\ trav[1].next_cursor = "before"

C5_State(t) ==
  LET f == trav[t]
      h == f.hist IN
  /\ f.nreq = 0 => f.reqs = <<>> /\ h = <<>>
  /\ Len(f.reqs) <= f.done_pages + 1
  /\ Len(h) <= Len(f.reqs)
  /\ \A k \in 2..Len(f.reqs) :
        /\ IsPrefix(DataOf(SubSeq(h, 1, k - 1)), f.out)
        /\ f.nreq >= Len(DataOf(SubSeq(h, 1, k - 1))) + 1
  \* a fetch is in flight only while the consumer waits for an element
  /\ f.pc = "Fetching" => f.nreq = Len(f.out) + 1 /\ f.out = DataOf(h)

C5_Step(t) ==
  LET f == trav[t]
      g == trav'[t] IN
  /\ (f.abandoned /\ g.abandoned) => g = f
  /\ (g.pc # "Start" /\ Len(g.reqs) > Len(f.reqs)) =>
        /\ Len(g.reqs) = Len(f.reqs) + 1
        /\ g.nreq = Len(g.out) + 1
        /\ g.out = DataOf(g.hist)

\* C5: no fetch before the consumer asks for the first element; the fetch for the
\* next page is issued only when every element of the pages so far has been yielded
\* and the consumer has asked for one more; so the fetches issued are at most one
\* more than the pages fully yielded; and once the consumer has dropped the
\* iterator nothing of the traversal changes: no further fetch.
C5_OnDemand ==
  /\ [](\A t \in Traversals : C5_State(t))
  /\ [][\A t \in Traversals : C5_Step(t)]_vars

\* dropped in the middle of the second page
C5_Witness ==
  /\ trav[1].abandoned
  /\ trav[1].pc = "Yielded"
  /\ Len(trav[1].hist) = 2
  /\ Len(trav[1].hist[2].data) = 2
  /\ trav[1].idx = 1
  /\ trav[1].hist[2].after # NoCursor
  /\ trav[1].next_cursor = "after"

\* C7: a resource without "data" makes Page.from_json fail, whatever cursors it
\* carries: the traversal is Failed with that KeyError, its page is still the one
\* before (none on the first fetch), nothing but the earlier pages' elements is
\* out and the failed fetch is the last one.  A resource with "data" is accepted;
\* the page takes its data, and each cursor it lacks is None.
C7_MalformedResponse ==
  \A t \in Traversals :
    LET f == trav[t]
        h == f.hist
        r == f.res IN
    /\ (r # NoResource /\ "data" \notin DOMAIN r) =>
          /\ f.pc = "Failed" /\ f.raised = "KeyError"
          /\ f.page = (IF h = <<>> THEN NoPage ELSE h[Len(h)])
          /\ Len(f.reqs) = Len(h) + 1
          /\ f.out = DataOf(h)
    /\ (r # NoResource /\ "data" \in DOMAIN r) =>
          /\ f.pc # "Failed"
          /\ h # <<>> /\ f.page = h[Len(h)] /\ Len(f.reqs) >= Len(h)
          /\ f.page = [data |-> r["data"],
                       before |-> IF "before" \in DOMAIN r THEN r["before"] ELSE NoCursor,
                       after |-> IF "after" \in DOMAIN r THEN r["after"] ELSE NoCursor]

\* the second answer has cursors and no data
C7_Witness ==
  /\ trav[1].res # NoResource
  /\ DOMAIN trav[1].res = {"before", "after"}
  /\ trav[1].pc = "Failed"
  /\ Len(trav[1].hist) = 1
  /\ Len(trav[1].out) = 2

\* what a traversal running alone yields against the answers h: the data of the
\* pages up to the first one without the chosen cursor
AloneOut(h) ==
  IF h = <<>> THEN <<>>
  ELSE LET stops == {k \in 1..Len(h) : h[k][DirOf(h)] = NoCursor}
           m == IF stops = {} THEN Len(h)
                ELSE CHOOSE k \in stops : \A j \in stops : k <= j
       IN DataOf(SubSeq(h, 1, m))

\* C6: under every interleaving of two traversals on one executor, each traversal's
\* page is the last one answered to it, its direction is its own first page's, every
\* cursor it sends is the one of its own previous page, sent with its own page_size,
\* what it yields is what it would yield alone against its own answers (a prefix of
\* it, all of it when Done), and every iterator() call, a repeated one too, starts
\* from nothing and fetches first without a cursor.
C6_Independent ==
  \A t \in Traversals :
    LET f == trav[t]
        h == f.hist IN
    /\ f.page = (IF h = <<>> THEN NoPage ELSE h[Len(h)])
    /\ \A k \in 1..Len(h) :
          /\ \A j \in 1..Len(h[k].data) : h[k].data[j] = ElemTok(t, k, j)
          /\ h[k].after \in {NoCursor, CursorTok(t, k, "after")}
          /\ h[k].before \in {NoCursor, CursorTok(t, k, "before")}
    /\ f.reqs # <<>> => f.reqs[1] = [size |-> f.page_size]
    /\ f.pc = "Start" =>
          /\ f.reqs = <<>> /\ h = <<>> /\ f.out = <<>>
          /\ f.next_cursor = "unset" /\ f.nreq = 0
    /\ h # <<>> =>
          /\ f.next_cursor \in {"unset", DirOf(h)}
          /\ \A k \in 2..Len(f.reqs) :
                f.reqs[k] = (DirOf(h) :> CursorTok(t, k - 1, DirOf(h))) @@ [size |-> f.page_size]
    /\ IsPrefix(f.out, AloneOut(h))
    /\ f.pc \in {"Fetching", "Done", "Failed"} => f.out = AloneOut(h)
    /\ f.pc = "Done" => Len(f.reqs) = Len(h)

\* both traversals under way, in different directions and with different sizes
C6_Witness ==
  /\ Len(trav[1].reqs) = 2 /\ trav[1].next_cursor = "after"
  /\ Len(trav[2].reqs) = 1 /\ trav[2].pc = "Yielded"
  /\ trav[2].page.after = NoCursor /\ trav[2].page.before # NoCursor
  /\ trav[1].page_size # trav[2].page_size
  /\ trav[1].pc = "Fetching"

HasSlash(s) == \E i \in 1..Len(s) : s[i] = "/"

\* C10: id() is the part of the value after its last "/" (all of it when there is
\* none) and to_class() is the Ref of the part before that "/" (of "" when there is
\* none); so Ref(c, i).id() = i for a string or Ref c and an i without "/", and
\* Ref("a", "b/c") has to_class() = Ref("a/b") and id() = "c".
C10_RefParts ==
  LET v == ref.value IN
  /\ ref.has_id =>
        /\ ~HasSlash(ref.id)
        /\ \E n \in 0..Len(v) :
              /\ ref.id = SubSeq(v, n + 1, Len(v))
              /\ n = 0 \/ v[n] = "/"
  /\ ref.has_class =>
        IF HasSlash(v)
          THEN \E n \in 1..Len(v) :
                 /\ v[n] = "/"
                 /\ ~HasSlash(SubSeq(v, n + 1, Len(v)))
                 /\ ref.to_class = SubSeq(v, 1, n - 1)
          ELSE ref.to_class = <<>>
  /\ (ref.has_id /\ ~ref.instance_id.none /\ ~HasSlash(ref.instance_id.s)) =>
        ref.id = ref.instance_id.s
  /\ (ref.built /\ ref.class_name.s = <<"a">> /\ ~ref.instance_id.none
         /\ ref.instance_id.s = <<"b", "/", "c">>) =>
        /\ v = <<"a", "/", "b", "/", "c">>
        /\ ref.has_id => ref.id = <<"c">>
        /\ ref.has_class => ref.to_class = <<"a", "/", "b">>

\* Ref(Ref("a"), "b/c") with id() and to_class() taken
C10_Witness ==
  /\ ref.class_name = [kind |-> "ref", s |-> <<"a">>]
  /\ ref.instance_id = [none |-> FALSE, s |-> <<"b", "/", "c">>]
  /\ ref.has_id /\ ref.has_class
  /\ ref.to_class = <<"a", "/", "b">>

\* C8: Event.from_json(Event(ts, action, resource).to_fauna_json()) succeeds and
\* equals the Event, for every ts, every valid action and every resource.
C8_RoundTrip ==
  (ev.mode = "direct" /\ ev.obj # NoEvent /\ ev.read) =>
    ev.back.err = "none" /\ ev.back.obj = ev.obj

\* C9: Event(ts, action, resource) fails, with InvalidQuery, exactly when action is
\* none of None, "create", "delete", and so does Event.from_json on a dict that has
\* the three keys; InvalidQuery never comes for a valid action; a failure leaves no
\* Event, and every Event made has a valid action and the fields it was given.
C9_ActionValidated ==
  /\ ev.made =>
        /\ ev.err = "InvalidQuery" <=> ev.action \notin {"None", "create", "delete"}
        /\ ev.err \in {"none", "InvalidQuery"}
        /\ ev.err # "none" <=> ev.obj = NoEvent
        /\ ev.obj # NoEvent =>
              ev.obj = [ts |-> ev.ts, action |-> ev.action, resource |-> ev.resource]
  /\ ~ev.made => ev.obj = NoEvent
  /\ (ev.mode = "json" /\ ev.read) =>
        /\ ev.back.err = "InvalidQuery" =>
              "action" \in DOMAIN ev.json /\ ev.json["action"] \notin {"None", "create", "delete"}
        /\ {"ts", "action", "resource"} \subseteq DOMAIN ev.json =>
              /\ ev.back.err = "InvalidQuery" <=>
                    ev.json["action"] \notin {"None", "create", "delete"}
              /\ ev.back.err \in {"none", "InvalidQuery"}
        /\ ev.back.err # "none" <=> ev.back.obj = NoEvent
  /\ ev.back.obj # NoEvent => ev.back.obj.action \in {"None", "create", "delete"}

\* from_json refused a dict whose action is "update"
C9_Witness ==
  /\ ev.mode = "json" /\ ev.read
  /\ ev.back.err = "InvalidQuery"
  /\ ev.json["action"] = "update"
====
